---- MODULE Spec2Model ----
(***************************************************************************)
(* Asynchronous operation coordination of the self-checkout client.       *)
(*                                                                         *)
(* ConfigWindow (configuration view): the React state of the component,   *)
(* its event handlers, its effects and the timers it arms.  Every action  *)
(* is one handler run against the last committed render, followed by the  *)
(* render it causes.  The socket-handler effect of ConfigWindow depends   *)
(* on the object useSocket() returns, which is a new object at every      *)
(* render, so the effect is cleaned up and run again at every render: the *)
(* cleanup clears the timer held in initializationTimeout at the render   *)
(* the effect was created in.                                             *)
(*                                                                         *)
(* Time is kept as the remaining milliseconds of every armed timer; Tick  *)
(* lets TickMs pass and is possible only when no armed timer is due; due  *)
(* timers fire in the order of their due times, as the browser fires      *)
(* them, so the order of all expiries is the real one for any TickMs.     *)
(***************************************************************************)
EXTENDS Integers, FiniteSets, Sequences, Bags, TLC

\* ------------------------------------------------------------------ bounds
MaxCamera == 1
TickMs == 30000
\* seconds to expires_at of a created transaction: 1..MaxExpiry
MaxExpiry == 2
\* the time step of the payment timers
PayTickMs == 1000
\* create_payment requests in one run
MaxPayments == 1
\* create_payment requests in one run of the checkout with a silent gateway
MaxAttempts == 2

\* ------------------------------------------------------- program constants
INIT_TIMEOUT_MS == 30000
NOTIFICATION_MS == 3000
DEFAULT_CAMERA_ID == 0
SNAP_WAIT_MS == 800
SNAP_RETRY_MS == 1000
SNAP_MAX_ATTEMPTS == 3
REOPEN_MS == 500
SUCCESS_MS == 3000
COUNTDOWN_MS == 1000
MS_PER_SECOND == 1000

Cameras == 0..MaxCamera
Tabs == {"detection", "model", "advanced"}
NoTab == "null"
NoTimer == 0

VARIABLES
  \* SettingsProvider and the configuration store
  config,                \* <<>> (null) or <<cameraId>>
  storeConfig,           \* the stored document: <<>> (none) or <<cameraId>>
  isLoading,
  loadPc,                \* "initial" while loadConfigFromFirestore awaits, then "idle"
  savePc,                \* "idle" | "writing"  (handleSaveSettings awaiting saveConfig)
  saveCam,               \* selectedCameraId captured by the running handleSaveSettings
                         \* (DEFAULT_CAMERA_ID while none runs)
  \* UserPage
  showSettings,
  \* ConfigWindow state
  previousCameraId,
  selectedCameraId,
  activeTab,
  hasChanges,
  isLoadingCameras,
  availableCameras,      \* the camera ids the camera Select lists
  isInitializingCamera,
  isRestoringCamera,
  isClosingModal,
  pendingTabChange,
  initializationTimeout,
  \* useSocket state of ConfigWindow
  notification,
  cameraEnabled,
  \* timers armed by setTimeout
  initTimers,            \* set of [id, kind, left, tab]
  notifTimers,           \* remaining ms of the armed showNotification timers
  \* the channel
  sentInit,              \* camera ids carried by the initialize_camera commands emitted
  \* observation
  calls,                 \* what the handler that ran last called, in order: the camera
                         \* commands it emitted, showNotification and handleClose
  obs,                   \* the acquisitions of the current session (see NoAcq)
  \* CartSidebar
  showCheckout,          \* the `open` prop of CheckoutModal
  \* CheckoutModal state
  paymentStatus,
  paymentData,           \* "null" or "data"
  errorMessage,
  timeRemaining,
  snapPopupOpen,
  \* the payment gateway and the channel
  snapWidgets,           \* widgets showing, opened by window.snap.pay (0, 1, 2 = more)
  createPending,         \* create_payment emitted and not yet answered
  payments,              \* create_payment requests emitted so far
  inflight,              \* the events the backend may still send for the transaction
  cartCleared,           \* checkoutComplete() calls (0, 1, 2 = more)
  \* timers of CheckoutModal
  payTimers,             \* setTimeout timers: bag of [kind, left, attempt]
  countdown,             \* ms to the next tick of the countdown interval
  pobs,                  \* observation of the latest transaction (see NoTransaction)
  \* useSocket: the cart as the backend last sent it
  cart,                  \* "empty" ({}) or "items"
  total,                 \* 0 or a positive amount (1)
  \* useSocket state of the scanning page (ScannerView, ProductModal)
  yoloInitialized,
  yoloInitializing,
  modelLabels,           \* the sequence of class names
  currentModel,
  isModelTabActive,
  isScanning,
  showCameraOverlay,
  pageNotification,      \* `notification` of this useSocket: <<>> (null) or the message
  \* ProductModal state
  productOpen,           \* `open`
  isLoadingLabels,
  \* timers armed by setTimeout, as their remaining ms
  pageNotifTimers,       \* the showNotification timers
  labelTimers,           \* bag: the get_model_labels timers of model_changed and
                         \* config_reloaded
  loadDelay,             \* the timer of the open effect of ProductModal: <<>> or <<ms>>
  loadTimers,            \* the setIsLoadingLabels(false) timers
  \* the channel
  labelRequests,         \* get_model_labels requests emitted and not yet answered
  emits                  \* the commands the handler that ran last emitted, in order

cfgVars == <<config, storeConfig, isLoading, loadPc, savePc, saveCam, showSettings,
             previousCameraId, selectedCameraId, activeTab, hasChanges,
             isLoadingCameras, availableCameras, isInitializingCamera,
             isRestoringCamera, isClosingModal, pendingTabChange,
             initializationTimeout, notification, cameraEnabled, initTimers, notifTimers, sentInit,
             calls, obs>>

payVars == <<showCheckout, paymentStatus, paymentData, errorMessage, timeRemaining,
             snapPopupOpen, snapWidgets, createPending, payments, inflight,
             cartCleared, payTimers, countdown, pobs>>

cartVars == <<cart, total>>

sockVars == <<yoloInitialized, yoloInitializing, modelLabels, currentModel,
              isModelTabActive, isScanning, showCameraOverlay, pageNotification,
              productOpen, isLoadingLabels, pageNotifTimers, labelTimers,
              loadDelay, loadTimers, labelRequests, emits>>

vars == <<cfgVars, payVars, cartVars, sockVars>>

\* What ConfigWindow renders from: a change of any of these is a re-render.
RenderState == <<config, isLoading, showSettings, previousCameraId, selectedCameraId,
                 activeTab, hasChanges, isLoadingCameras, availableCameras,
                 isInitializingCamera, isRestoringCamera, isClosingModal,
                 pendingTabChange, initializationTimeout, notification,
                 cameraEnabled>>

\* ----------------------------------------------------------------- helpers

\* config.advanced?.cameraId || 0
ConfigCameraId(cfg) == IF cfg = <<>> THEN DEFAULT_CAMERA_ID ELSE cfg[1]

\* The busy overlay drawn over the window's content (it also covers the
\* controls of the content: tabs, camera select, save and reload buttons).
\* isReloading is true exactly while the reload's loadConfig holds isLoading.
Overlay == isLoading \/ isRestoringCamera \/ isClosingModal

Busy == isClosingModal \/ isInitializingCamera \/ isRestoringCamera

\* A comparison that always finds a change: the alternative C5 is tested against.
SelectionChangedAlways == TRUE

\* handleConfigClose / handleTabChange: has the camera selection changed?
SelectionChanged == selectedCameraId # previousCameraId

\* Timer ids only matter while a timer is armed or a variable holds the id,
\* so setTimeout's fresh id is the smallest id that is neither.
FreshId ==
  CHOOSE n \in 1..(Cardinality(initTimers) + 2) :
    /\ n # initializationTimeout
    /\ \A t \in initTimers : t.id # n

\* const timeoutId = setTimeout(..., 30000)
NewTimer(kind, tab) == [id |-> FreshId, kind |-> kind, left |-> INIT_TIMEOUT_MS, tab |-> tab]

\* clearTimeout(id)
ClearTimer(ts, id) == {t \in ts : t.id # id}

\* A cleanup that clears no timer: the alternative C2 is tested against.
EffectCleanupNone(ts, heldId) == ts

\* Cleanup of the socket-handler effect, run at every re-render with the
\* initializationTimeout of the render the effect was created in.
EffectCleanup(ts, heldId) == IF heldId # NoTimer THEN ClearTimer(ts, heldId) ELSE ts

\* The render that follows a handler: the effect is cleaned up iff the
\* component renders again, i.e. iff some state it renders from changed.
Commit(ts) ==
  IF RenderState' # RenderState THEN EffectCleanup(ts, initializationTimeout) ELSE ts

\* socket.showNotification(message)
ShowNotification(msg) ==
  /\ notification' = msg
  /\ notifTimers' = notifTimers \cup {NOTIFICATION_MS}

Sat(n) == IF n >= 2 THEN 2 ELSE n + 1

\* socket.socket.emit('initialize_camera', { camera_id: cam })
InitializeCamera(cam) == <<"initialize_camera", cam>>
\* socket.socket.emit('kill_camera_for_config')
KillCamera == <<"kill_camera_for_config">>
\* handleClose(): onClose?.() of UserPage, setShowSettings(false)
HandleClose == <<"handleClose">>
\* socket.showNotification(msg)
Notify(msg) == <<"showNotification", msg>>

\* observation of a run of a ConfigWindow handler; CheckoutModal is another
\* component, whose state no handler of ConfigWindow touches
Ran(cs) == calls' = cs /\ UNCHANGED <<payVars, cartVars, sockVars>>

\* Observation of the acquisitions of the current session of the view (from
\* its opening on): the number of initialize_camera commands emitted (0, 1,
\* 2 = more than one) and, of the latest one, its kind, whether it is pending
\* or was resolved by an event or by a timeout callback, the time left to its
\* deadline, and whether it was started while the one before it was pending.
NoAcq == [acqKind |-> "none", acqState |-> "none", acqLeft |-> 0,
          acqOverlap |-> FALSE, inits |-> 0]

\* observation of a continuation: it resolves the latest acquisition if pending
Resolved(o, how) ==
  IF o.acqState = "pending" THEN [o EXCEPT !.acqState = how, !.acqLeft = 0] ELSE o

\* observation of an emitted initialize_camera
StartAcq(o, kind) ==
  [o EXCEPT !.acqKind = kind, !.acqState = "pending", !.acqLeft = INIT_TIMEOUT_MS,
            !.acqOverlap = (o.acqState = "pending"), !.inits = Sat(o.inits)]


\* ------------------------------------------------------------------- Init

\* Observation of the latest transaction created: the time left to its
\* expires_at and whether, since payment_created, an outcome (success or
\* failure) arrived or the user closed or retried ("touched") or not ("clean"),
\* or a success event arrived while paymentStatus was expired ("late").
NoTransaction == [left |-> 0, state |-> "none"]

\* CheckoutModal after mount: the useState initial values
PayInit ==
  /\ showCheckout = FALSE
  /\ paymentStatus = "idle"
  /\ paymentData = "null"
  /\ errorMessage = ""
  /\ timeRemaining = 0
  /\ snapPopupOpen = FALSE
  /\ snapWidgets = 0
  /\ createPending = FALSE
  /\ payments = 0
  /\ inflight = {}
  /\ cartCleared = 0
  /\ payTimers = EmptyBag
  /\ countdown = 0
  /\ pobs = NoTransaction
  /\ cart = "empty"
  /\ total = 0

\* useState(...) of useSocket (47-68) and of ProductModal (part_000 27-35)
PageInit ==
  /\ yoloInitialized = FALSE
  /\ yoloInitializing = FALSE
  /\ modelLabels = <<>>
  /\ currentModel = ""
  /\ isModelTabActive = FALSE
  /\ isScanning = FALSE
  /\ showCameraOverlay = TRUE
  /\ pageNotification = <<>>
  /\ productOpen = FALSE
  /\ isLoadingLabels = FALSE
  /\ pageNotifTimers = {}
  /\ labelTimers = EmptyBag
  /\ loadDelay = <<>>
  /\ loadTimers = {}
  /\ labelRequests = 0
  /\ emits = <<>>

Init ==
  /\ PayInit
  /\ PageInit
  /\ config = <<>>
  /\ storeConfig \in {<<>>} \cup {<<c>> : c \in Cameras}
  /\ isLoading = TRUE
  /\ loadPc = "initial"
  /\ savePc = "idle"
  /\ saveCam = DEFAULT_CAMERA_ID
  /\ showSettings = FALSE
  /\ previousCameraId = DEFAULT_CAMERA_ID
  /\ selectedCameraId = DEFAULT_CAMERA_ID
  /\ activeTab = "detection"
  /\ hasChanges = FALSE
  /\ isLoadingCameras = FALSE
  /\ availableCameras = {}
  /\ isInitializingCamera = FALSE
  /\ isRestoringCamera = FALSE
  /\ isClosingModal = FALSE
  /\ pendingTabChange = NoTab
  /\ initializationTimeout = NoTimer
  /\ notification = <<>>
  /\ cameraEnabled = FALSE
  /\ initTimers = {}
  /\ notifTimers = {}
  /\ sentInit = {}
  /\ calls = <<>>
  /\ obs = NoAcq

\* ------------------------------------------------- the open effect (167-199)

\* An open effect that records the rollback target but keeps the selection of
\* the session before: the alternative C25 is tested against.
OpenEffectKeepsSelection(cfg) ==
  /\ previousCameraId' = ConfigCameraId(cfg)
  /\ UNCHANGED selectedCameraId
  /\ hasChanges' = FALSE
  /\ isLoadingCameras' = (IF cfg # <<>> THEN TRUE ELSE isLoadingCameras)

\* useEffect(..., [open, config, loadModelsAndCameras]) with open true
OpenEffect(cfg) ==
  /\ previousCameraId' = ConfigCameraId(cfg)
  /\ selectedCameraId' = ConfigCameraId(cfg)
  /\ hasChanges' = FALSE
  /\ isLoadingCameras' = (IF cfg # <<>> THEN TRUE ELSE isLoadingCameras)

NoOpenEffect ==
  UNCHANGED <<previousCameraId, selectedCameraId, hasChanges, isLoadingCameras>>

\* UserPage: the logo is clicked, setShowSettings(true)
OpenConfig ==
  /\ ~showSettings
  /\ showSettings' = TRUE
  /\ OpenEffect(config)
  /\ initTimers' = EffectCleanup(initTimers, initializationTimeout)
  /\ obs' = NoAcq
  /\ Ran(<<KillCamera>>)
  /\ UNCHANGED <<availableCameras, config, storeConfig, isLoading, loadPc, savePc, saveCam, activeTab,
                 isInitializingCamera, isRestoringCamera, isClosingModal,
                 pendingTabChange, initializationTimeout, notification, cameraEnabled,
                 notifTimers, sentInit>>

\* SettingsProvider.loadConfigFromFirestore resumes after loadSettings()
LoadConfigDone ==
  /\ loadPc # "idle"
  /\ config' = storeConfig
  /\ isLoading' = FALSE
  /\ loadPc' = "idle"
  /\ IF showSettings /\ (config' # <<>> \/ config # <<>>)
       THEN OpenEffect(config') /\ Ran(<<KillCamera>>)
       ELSE NoOpenEffect /\ Ran(<<>>)
  /\ obs' = obs
  /\ UNCHANGED <<notification, notifTimers>>
  /\ initTimers' = EffectCleanup(initTimers, initializationTimeout)
  /\ UNCHANGED <<availableCameras, storeConfig, savePc, saveCam, showSettings, activeTab,
                 isInitializingCamera, isRestoringCamera, isClosingModal,
                 pendingTabChange, initializationTimeout, cameraEnabled, sentInit>>

\* A selection that applies the camera at once by emitting initialize_camera:
\* the alternative C24 is tested against.
SelectCameraAndInitialize(c) ==
  /\ showSettings /\ ~Overlay /\ activeTab = "model" /\ ~isLoadingCameras
  /\ c \in availableCameras /\ c # selectedCameraId
  /\ selectedCameraId' = c
  /\ sentInit' = sentInit \cup {c}
  /\ obs' = StartAcq(obs, "save")
  /\ Ran(<<InitializeCamera(c)>>)
  /\ UNCHANGED <<availableCameras, config, storeConfig, isLoading, loadPc, savePc, saveCam, showSettings,
                 previousCameraId, activeTab, hasChanges, isLoadingCameras,
                 isInitializingCamera, isRestoringCamera, isClosingModal,
                 pendingTabChange, initializationTimeout, notification, cameraEnabled,
                 notifTimers>>
  /\ initTimers' = Commit(initTimers)

\* the camera Select's onValueChange: setSelectedCameraId(parseInt(value))
SelectCamera(c) ==
  /\ showSettings /\ ~Overlay /\ activeTab = "model" /\ ~isLoadingCameras
  /\ c \in availableCameras /\ c # selectedCameraId
  /\ selectedCameraId' = c
  /\ obs' = obs
  /\ Ran(<<>>)
  /\ UNCHANGED <<availableCameras, config, storeConfig, isLoading, loadPc, savePc, saveCam, showSettings,
                 previousCameraId, activeTab, hasChanges, isLoadingCameras,
                 isInitializingCamera, isRestoringCamera, isClosingModal,
                 pendingTabChange, initializationTimeout, notification, cameraEnabled,
                 notifTimers, sentInit>>
  /\ initTimers' = Commit(initTimers)

\* updateDetectionConfig / updateVisualConfig / updateSimulationConfig
EditSetting ==
  /\ showSettings /\ ~Overlay /\ activeTab # "model"
  /\ hasChanges' = TRUE
  /\ initTimers' = EffectCleanup(initTimers, initializationTimeout)
  /\ obs' = obs
  /\ Ran(<<>>)
  /\ UNCHANGED <<availableCameras, config, storeConfig, isLoading, loadPc, savePc, saveCam, showSettings,
                 previousCameraId, selectedCameraId, activeTab, isLoadingCameras,
                 isInitializingCamera, isRestoringCamera, isClosingModal,
                 pendingTabChange, initializationTimeout, notification, cameraEnabled,
                 notifTimers, sentInit>>

\* --------------------------------------------------- save (426-489, 155-174)

\* The bottom "Simpan Pengaturan" button (disabled without changes or while
\* busy) and the model tab's "Save Camera & Model Settings" button.
SaveEnabled ==
  \/ activeTab = "model"
  \/ hasChanges /\ ~isLoading /\ ~Busy

\* handleSaveSettings up to `await saveConfig(...)`, saveConfig up to
\* `await saveSettings(...)`
SaveClick ==
  /\ showSettings /\ ~Overlay /\ SaveEnabled
  /\ isClosingModal' = TRUE
  /\ isInitializingCamera' = TRUE
  /\ isLoading' = TRUE
  /\ savePc' = "writing"
  /\ saveCam' = selectedCameraId
  /\ initTimers' = EffectCleanup(initTimers, initializationTimeout)
  /\ obs' = obs
  /\ Ran(<<>>)
  /\ UNCHANGED <<availableCameras, config, storeConfig, loadPc, showSettings, previousCameraId,
                 selectedCameraId, activeTab, hasChanges, isLoadingCameras,
                 isRestoringCamera, pendingTabChange, initializationTimeout,
                 notification, cameraEnabled, notifTimers, sentInit>>

\* A save that emits whatever the store write returned: the alternative C9 is
\* tested against.
SaveEmitsAlways(ok) == TRUE

\* if (success) { ... emit('initialize_camera') ... } else { ... }
SaveEmitsInitialize(ok) == ok

\* saveSettings() returns ok (a failed or throwing setDoc returns false);
\* saveConfig and handleSaveSettings resume in the same task, then the
\* component renders; with the view open the new config runs the open effect,
\* whose state updates render once more.
SaveStoreDone(ok) ==
  /\ savePc = "writing"
  /\ savePc' = "idle"
  /\ isLoading' = FALSE
  /\ storeConfig' = (IF ok THEN <<saveCam>> ELSE storeConfig)
  /\ config' = (IF ok THEN <<saveCam>> ELSE config)
  /\ saveCam' = DEFAULT_CAMERA_ID
  /\ UNCHANGED <<availableCameras, loadPc, showSettings, activeTab, isRestoringCamera,
                 pendingTabChange, cameraEnabled>>
  /\ IF ok
       THEN /\ ShowNotification(<<"saved">>)
            /\ IF showSettings
                 THEN OpenEffect(config')
                 ELSE /\ hasChanges' = FALSE
                      /\ UNCHANGED <<previousCameraId, selectedCameraId,
                                     isLoadingCameras>>
       ELSE /\ ShowNotification(<<"save_failed">>)
            /\ NoOpenEffect
  /\ IF SaveEmitsInitialize(ok)
       THEN LET t == NewTimer("save", NoTab) IN
            /\ sentInit' = sentInit \cup {saveCam}
            /\ initializationTimeout' = t.id
            /\ UNCHANGED <<isClosingModal, isInitializingCamera>>
            /\ initTimers' =
                 IF ok /\ showSettings
                   THEN EffectCleanup(EffectCleanup(initTimers, initializationTimeout)
                                        \cup {t}, t.id)
                   ELSE EffectCleanup(initTimers, initializationTimeout) \cup {t}
            /\ obs' = StartAcq(obs, "save")
            /\ Ran(<<Notify(notification'), InitializeCamera(saveCam)>>
                   \o (IF ok /\ showSettings THEN <<KillCamera>> ELSE <<>>))
       ELSE /\ isClosingModal' = FALSE
            /\ isInitializingCamera' = FALSE
            /\ initTimers' = EffectCleanup(initTimers, initializationTimeout)
            /\ obs' = obs
            /\ Ran(<<Notify(notification')>>
                   \o (IF ok /\ showSettings THEN <<KillCamera>> ELSE <<>>))
            /\ UNCHANGED <<sentInit, initializationTimeout>>

\* ------------------------------------------ close and tab change (499-584)

\* DraggableWindow's backdrop is clicked: onClose = handleConfigClose
ConfigClose ==
  /\ showSettings
  /\ IF SelectionChanged
       THEN LET t == NewTimer("close", NoTab) IN
            /\ isRestoringCamera' = TRUE
            /\ sentInit' = sentInit \cup {previousCameraId}
            /\ initializationTimeout' = t.id
            /\ initTimers' = EffectCleanup(initTimers, initializationTimeout) \cup {t}
            /\ obs' = StartAcq(obs, "close")
            /\ Ran(<<InitializeCamera(previousCameraId)>>)
            /\ UNCHANGED showSettings
       ELSE /\ showSettings' = FALSE
            /\ initTimers' = EffectCleanup(initTimers, initializationTimeout)
            /\ obs' = obs
            /\ Ran(<<HandleClose>>)
            /\ UNCHANGED <<isRestoringCamera, sentInit, initializationTimeout>>
  /\ UNCHANGED <<availableCameras, config, storeConfig, isLoading, loadPc, savePc, saveCam,
                 previousCameraId, selectedCameraId, activeTab, hasChanges,
                 isLoadingCameras, isInitializingCamera, isClosingModal,
                 pendingTabChange, notification, cameraEnabled, notifTimers>>

\* Tabs onValueChange = handleTabChange(newTab)
TabChange(newTab) ==
  /\ showSettings /\ ~Overlay
  /\ newTab # activeTab
  /\ IF activeTab = "model" /\ newTab # "model" /\ SelectionChanged
       THEN LET t == NewTimer("tab", newTab) IN
            /\ isRestoringCamera' = TRUE
            /\ pendingTabChange' = newTab
            /\ selectedCameraId' = previousCameraId
            /\ sentInit' = sentInit \cup {previousCameraId}
            /\ initializationTimeout' = t.id
            /\ initTimers' = EffectCleanup(initTimers, initializationTimeout) \cup {t}
            /\ obs' = StartAcq(obs, "tab")
            /\ Ran(<<InitializeCamera(previousCameraId)>>)
            /\ UNCHANGED activeTab
       ELSE /\ activeTab' = newTab
            /\ initTimers' = EffectCleanup(initTimers, initializationTimeout)
            /\ obs' = obs
            /\ Ran(<<>>)
            /\ UNCHANGED <<isRestoringCamera, pendingTabChange, selectedCameraId,
                           sentInit, initializationTimeout>>
  /\ UNCHANGED <<availableCameras, config, storeConfig, isLoading, loadPc, savePc, saveCam, showSettings,
                 previousCameraId, hasChanges, isLoadingCameras, isInitializingCamera,
                 isClosingModal, notification, cameraEnabled, notifTimers>>

\* --------------------------------------- handleCameraInitialized (263-342)

\* A handler that only notifies and never switches the tab or closes: the
\* alternative C23 is tested against.
CameraInitializedNotifyOnly(ok, cam, wasClosing, wasRestoring, targetTab) ==
  [close |-> FALSE, tab |-> NoTab, disable |-> FALSE,
   msg |-> IF ok THEN <<"init_ok", cam>> ELSE <<"init_failed">>]

\* What the handler does besides clearing the timer and the busy flags:
\* close = handleClose(), tab = the tab setActiveTab is called with,
\* disable = socket.setCameraEnabled(false), msg = the notification.
CameraInitializedOutcome(ok, cam, wasClosing, wasRestoring, targetTab) ==
  IF ok
    THEN IF wasClosing
           THEN [close |-> TRUE, tab |-> NoTab, disable |-> TRUE,
                 msg |-> <<"init_manual", cam>>]
         ELSE IF wasRestoring
           THEN IF targetTab # NoTab
                  THEN [close |-> FALSE, tab |-> targetTab, disable |-> FALSE,
                        msg |-> <<"restored", cam>>]
                  ELSE [close |-> TRUE, tab |-> NoTab, disable |-> FALSE,
                        msg |-> <<"restored", cam>>]
         ELSE [close |-> FALSE, tab |-> NoTab, disable |-> FALSE,
               msg |-> <<"init_ok", cam>>]
    ELSE IF wasClosing
           THEN [close |-> TRUE, tab |-> NoTab, disable |-> FALSE,
                 msg |-> <<"init_failed">>]
         ELSE IF wasRestoring /\ targetTab # NoTab
           THEN [close |-> FALSE, tab |-> targetTab, disable |-> FALSE,
                 msg |-> <<"init_failed">>]
         ELSE IF wasRestoring
           THEN [close |-> TRUE, tab |-> NoTab, disable |-> FALSE,
                 msg |-> <<"init_failed">>]
         ELSE [close |-> FALSE, tab |-> NoTab, disable |-> FALSE,
               msg |-> <<"init_failed">>]

\* A camera_initialized event is delivered.  The channel pairs no event with a
\* command: an event for a camera may arrive, once or again, any time after an
\* initialize_camera for that camera was emitted.
CameraInitialized(ok, cam) ==
  /\ cam \in sentInit
  /\ LET out == CameraInitializedOutcome(ok, cam, isClosingModal, isRestoringCamera,
                                         pendingTabChange)
     IN /\ initializationTimeout' = NoTimer
        /\ isInitializingCamera' = FALSE
        /\ isRestoringCamera' = FALSE
        /\ isClosingModal' = FALSE
        /\ pendingTabChange' = NoTab
        /\ ShowNotification(out.msg)
        /\ cameraEnabled' = (IF out.disable THEN FALSE ELSE cameraEnabled)
        /\ showSettings' = (IF out.close THEN FALSE ELSE showSettings)
        /\ activeTab' = (IF out.tab # NoTab THEN out.tab ELSE activeTab)
        /\ obs' = Resolved(obs, "event")
        /\ Ran(<<Notify(out.msg)>> \o (IF out.close THEN <<HandleClose>> ELSE <<>>))
  /\ UNCHANGED <<availableCameras, config, storeConfig, isLoading, loadPc, savePc, saveCam,
                 previousCameraId, selectedCameraId, hasChanges, isLoadingCameras,
                 sentInit>>
  /\ initTimers' = Commit(EffectCleanup(initTimers, initializationTimeout))

\* -------------------------------------- the 30-second timeout callbacks

\* close = handleClose(), tab = the tab setActiveTab is called with,
\* closing / restoring = the flags the callback clears
TimeoutOutcome(t) ==
  CASE t.kind = "save" ->
         [close |-> FALSE, tab |-> NoTab, closing |-> TRUE, restoring |-> FALSE,
          msg |-> <<"timeout_init">>]
    [] t.kind = "close" ->
         [close |-> TRUE, tab |-> NoTab, closing |-> FALSE, restoring |-> TRUE,
          msg |-> <<"timeout_close">>]
    [] t.kind = "tab" ->
         [close |-> FALSE, tab |-> t.tab, closing |-> FALSE, restoring |-> TRUE,
          msg |-> <<"timeout_tab">>]

\* Timers fire in the order of their due times.
Earliest(left) ==
  /\ left <= 0
  /\ \A t \in initTimers : left <= t.left
  /\ \A r \in notifTimers : left <= r

TimeoutFire(t) ==
  /\ t \in initTimers /\ Earliest(t.left)
  /\ LET out == TimeoutOutcome(t)
     IN /\ isClosingModal' = (IF out.closing THEN FALSE ELSE isClosingModal)
        /\ isInitializingCamera' = (IF out.closing THEN FALSE ELSE isInitializingCamera)
        /\ isRestoringCamera' = (IF out.restoring THEN FALSE ELSE isRestoringCamera)
        /\ pendingTabChange' = (IF out.tab # NoTab THEN NoTab ELSE pendingTabChange)
        /\ activeTab' = (IF out.tab # NoTab THEN out.tab ELSE activeTab)
        /\ showSettings' = (IF out.close THEN FALSE ELSE showSettings)
        /\ ShowNotification(out.msg)
        /\ initializationTimeout' = NoTimer
        /\ obs' = Resolved(obs, "timeout")
        /\ Ran((IF out.close THEN <<HandleClose>> ELSE <<>>) \o <<Notify(out.msg)>>)
  /\ UNCHANGED <<availableCameras, config, storeConfig, isLoading, loadPc, savePc, saveCam,
                 previousCameraId, selectedCameraId, hasChanges, isLoadingCameras,
                 cameraEnabled, sentInit>>
  /\ initTimers' = Commit(initTimers \ {t})

\* ------------------------------------------------ other events and timers

\* setTimeout(() => setNotification(null), 3000) fires
NotificationTimeout ==
  /\ \E r \in notifTimers : Earliest(r) /\ notifTimers' = notifTimers \ {r}
  /\ notification' = <<>>
  /\ obs' = obs
  /\ Ran(<<>>)
  /\ UNCHANGED <<availableCameras, config, storeConfig, isLoading, loadPc, savePc, saveCam, showSettings,
                 previousCameraId, selectedCameraId, activeTab, hasChanges,
                 isLoadingCameras, isInitializingCamera, isRestoringCamera,
                 isClosingModal, pendingTabChange, initializationTimeout,
                 cameraEnabled, sentInit>>
  /\ initTimers' = Commit(initTimers)

\* handleRefreshCameras: the refresh button of the model tab
RefreshCameras ==
  /\ showSettings /\ ~Overlay /\ activeTab = "model" /\ ~isLoadingCameras
  /\ availableCameras' = {}
  /\ isLoadingCameras' = TRUE
  /\ initTimers' = EffectCleanup(initTimers, initializationTimeout)
  /\ obs' = obs
  /\ Ran(<<>>)
  /\ UNCHANGED <<config, storeConfig, isLoading, loadPc, savePc, saveCam, showSettings,
                 previousCameraId, selectedCameraId, activeTab, hasChanges,
                 isInitializingCamera, isRestoringCamera, isClosingModal,
                 pendingTabChange, initializationTimeout, notification, cameraEnabled,
                 notifTimers, sentInit>>

\* available_cameras event, the answer to get_available_cameras:
\* setIsLoadingCameras(false), setAvailableCameras(list);
\* the list holds every camera, or is empty when detection failed
AvailableCameras(cams) ==
  /\ isLoadingCameras
  /\ isLoadingCameras' = FALSE
  /\ availableCameras' = cams
  /\ initTimers' = EffectCleanup(initTimers, initializationTimeout)
  /\ obs' = obs
  /\ Ran(<<>>)
  /\ UNCHANGED <<config, storeConfig, isLoading, loadPc, savePc, saveCam, showSettings,
                 previousCameraId, selectedCameraId, activeTab, hasChanges,
                 isInitializingCamera, isRestoringCamera, isClosingModal,
                 pendingTabChange, initializationTimeout, notification, cameraEnabled,
                 notifTimers, sentInit>>

\* camera_status event: setCameraEnabled(data.enabled)
CameraStatus(enabled) ==
  /\ enabled # cameraEnabled
  /\ cameraEnabled' = enabled
  /\ initTimers' = EffectCleanup(initTimers, initializationTimeout)
  /\ obs' = obs
  /\ Ran(<<>>)
  /\ UNCHANGED <<availableCameras, config, storeConfig, isLoading, loadPc, savePc, saveCam, showSettings,
                 previousCameraId, selectedCameraId, activeTab, hasChanges,
                 isLoadingCameras, isInitializingCamera, isRestoringCamera,
                 isClosingModal, pendingTabChange, initializationTimeout, notification,
                 notifTimers, sentInit>>

\* TickMs pass; no armed timer is due
Tick ==
  /\ \A t \in initTimers : t.left > 0
  /\ \A r \in notifTimers : r > 0
  /\ initTimers' = {[t EXCEPT !.left = @ - TickMs] : t \in initTimers}
  /\ notifTimers' = {r - TickMs : r \in notifTimers}
  /\ obs' = [obs EXCEPT
               !.acqLeft = IF obs.acqState # "pending" \/ @ < 0 THEN @ ELSE @ - TickMs]
  /\ Ran(<<>>)
  /\ UNCHANGED <<availableCameras, config, storeConfig, isLoading, loadPc, savePc, saveCam, showSettings,
                 previousCameraId, selectedCameraId, activeTab, hasChanges,
                 isLoadingCameras, isInitializingCamera, isRestoringCamera,
                 isClosingModal, pendingTabChange, initializationTimeout, notification,
                 cameraEnabled, sentInit>>

\* ------------------------------------------------------------ specification

Next ==
  \/ OpenConfig
  \/ LoadConfigDone
  \/ \E c \in Cameras : SelectCamera(c)
  \/ EditSetting
  \/ SaveClick
  \/ \E ok \in BOOLEAN : SaveStoreDone(ok)
  \/ ConfigClose
  \/ \E newTab \in Tabs : TabChange(newTab)
  \/ \E ok \in BOOLEAN, cam \in Cameras : CameraInitialized(ok, cam)
  \/ \E t \in initTimers : TimeoutFire(t)
  \/ NotificationTimeout
  \/ RefreshCameras
  \/ \E cams \in {{}, Cameras} : AvailableCameras(cams)
  \/ \E e \in BOOLEAN : CameraStatus(e)
  \/ Tick

Spec == Init /\ [][Next]_vars

TypeOK ==
  /\ previousCameraId \in Cameras /\ selectedCameraId \in Cameras
  /\ activeTab \in Tabs /\ pendingTabChange \in Tabs \cup {NoTab}
  /\ Cardinality(initTimers) <= 1
  /\ (savePc = "writing" => isLoading)

\* ---------------------------------------------- CheckoutModal (payment)
\* CheckoutModal is mounted by CartSidebar for the whole page life; `open` is
\* CartSidebar's showCheckout and onOpenChange is its setter.  The cart is
\* not empty and the socket is connected.

\* The events of a created transaction; the backend sends each at most once.
PaymentEvents == {"payment_successful", "payment_failed", "payment_completed"}

\* resetPaymentState()
ResetPaymentState ==
  /\ paymentStatus' = "idle"
  /\ paymentData' = "null"
  /\ errorMessage' = ""
  /\ timeRemaining' = 0
  /\ snapPopupOpen' = FALSE
  /\ countdown' = 0

\* const timer = setTimeout(..., ms)
PayTimer(kind, ms, attempt) == [kind |-> kind, left |-> ms, attempt |-> attempt]

\* A setTimeout that arms nothing: the alternative C11 is tested against.
ArmNone(ts, t) == ts
\* setTimeout(...) and the removal of a timer that fired; two timers armed
\* with the same delay at the same instant are two timers
Arm(ts, t) == ts (+) SetToBag({t})
Disarm(ts, t) == ts (-) SetToBag({t})

\* the timers ts after ms milliseconds
Elapse(ts, ms) ==
  [u \in {[t EXCEPT !.left = @ - ms] : t \in BagToSet(ts)} |->
     ts[[u EXCEPT !.left = @ + ms]]]

\* Timers and the countdown interval fire in the order of their due times.
PayEarliest(left) ==
  /\ left <= 0
  /\ \A t \in BagToSet(payTimers) : left <= t.left
  /\ timeRemaining > 0 => left <= countdown

\* observation: an outcome arrived, or the user closed or retried
Touched(o) == IF o.state = "clean" THEN [left |-> 0, state |-> "touched"] ELSE o

\* CartSidebar.handleCheckout: setShowCheckout(true)
Checkout ==
  /\ ~showCheckout /\ snapWidgets = 0 /\ paymentStatus # "success"
  /\ cart # "empty" /\ total > 0
  /\ showCheckout' = TRUE
  /\ pobs' = Touched(pobs)
  /\ UNCHANGED <<paymentStatus, paymentData, errorMessage, timeRemaining, snapPopupOpen,
                 snapWidgets, createPending, payments, inflight, cartCleared, payTimers, countdown>>
  /\ UNCHANGED <<cfgVars, cartVars, sockVars>>

\* the dialog is dismissed or "Tutup" is clicked: onOpenChange(false); the
\* reset-on-close effect then runs resetPaymentState()
CloseCheckout ==
  /\ showCheckout /\ paymentStatus # "success"
  /\ showCheckout' = FALSE
  /\ ResetPaymentState
  /\ pobs' = Touched(pobs)
  /\ UNCHANGED <<snapWidgets, createPending, payments, inflight, cartCleared, payTimers>>
  /\ UNCHANGED <<cfgVars, cartVars, sockVars>>

\* A cart that never counts as empty: the alternative C16 is tested against.
CartNeverEmpty(c) == FALSE

\* cartItems.length === 0
CartIsEmpty(c) == c = "empty"

\* "Bayar Sekarang" (disabled while total <= 0): handleCreatePayment, which
\* emits create_payment unless the cart has no item; max bounds the requests
\* of a run
HandleCreatePayment(max) ==
  /\ showCheckout /\ paymentStatus = "idle" /\ total > 0
  /\ IF CartIsEmpty(cart)
       THEN /\ errorMessage' = "cart_empty"
            /\ paymentStatus' = "idle"
            /\ UNCHANGED <<createPending, payments>>
       ELSE /\ payments < max
            /\ payments' = payments + 1
            /\ paymentStatus' = "creating"
            /\ errorMessage' = ""
            /\ createPending' = TRUE
  /\ pobs' = Touched(pobs)
  /\ UNCHANGED <<showCheckout, paymentData, timeRemaining, snapPopupOpen, snapWidgets,
                 inflight, cartCleared, payTimers, countdown>>
  /\ UNCHANGED <<cfgVars, cartVars, sockVars>>

CreatePayment == HandleCreatePayment(MaxPayments)

\* cart_update event: setCart(data.cart); setTotal(data.total)
CartUpdate(c, t) ==
  /\ <<c, t>> # <<cart, total>>
  /\ cart' = c
  /\ total' = t
  /\ UNCHANGED <<cfgVars, payVars, sockVars>>

\* The whole seconds of ms without the lower limit: the alternative C37 is
\* tested against.
RemainingFloor(ms) == ms \div MS_PER_SECOND

\* Math.max(0, Math.floor((expiresAt.getTime() - now.getTime()) / 1000)), for
\* ms = expiresAt.getTime() - now.getTime()
Remaining(ms) ==
  IF ms \div MS_PER_SECOND < 0 THEN 0 ELSE ms \div MS_PER_SECOND

\* payment_created event whose expires_at is ms milliseconds after the
\* client's clock (before it when negative): handlePaymentCreated up to the
\* first await of tryOpenSnap
PaymentCreatedIn(ms) ==
  LET n == Remaining(ms)
  IN /\ createPending
     /\ createPending' = FALSE
     /\ paymentData' = "data"
     /\ paymentStatus' = "pending"
     /\ timeRemaining' = n
     /\ countdown' = (IF n = timeRemaining THEN countdown ELSE COUNTDOWN_MS)
     /\ payTimers' = Arm(payTimers, PayTimer("tryOpenSnap", SNAP_WAIT_MS, 1))
     /\ inflight' = PaymentEvents
     /\ pobs' = [left |-> n * COUNTDOWN_MS, state |-> "clean"]
     /\ UNCHANGED <<showCheckout, errorMessage, snapPopupOpen, snapWidgets, payments,
                    cartCleared>>
     /\ UNCHANGED <<cfgVars, cartVars, sockVars>>

\* payment_created event with expires_at = now + n seconds
PaymentCreated(n) == PaymentCreatedIn(n * MS_PER_SECOND)

\* A message taken from the event as it is: the alternative C32 is tested
\* against.
ErrorTextRaw(err) == err

\* data.error || 'Gagal membuat pembayaran'; "" is an event without error text
ErrorText(err) == IF err # "" THEN err ELSE "create_failed"

\* the error texts a payment_error event may carry
GatewayErrors == {"", "gateway_error"}

\* payment_error event: handlePaymentError
PaymentError(err) ==
  /\ createPending
  /\ createPending' = FALSE
  /\ errorMessage' = ErrorText(err)
  /\ paymentStatus' = "failed"
  /\ pobs' = Touched(pobs)
  /\ UNCHANGED <<showCheckout, paymentData, timeRemaining, snapPopupOpen, snapWidgets,
                 payments, inflight, cartCleared, payTimers, countdown>>
  /\ UNCHANGED <<cfgVars, cartVars, sockVars>>

MayRetryAlways(attempt) == TRUE

\* the retry condition of tryOpenSnap, the same in its else branch and its catch
MayRetry(attempt) == attempt < SNAP_MAX_ATTEMPTS

\* tryOpenSnap(attempt) resumes after its 800 ms wait; avail = the Snap script
\* loaded and window.snap exists.  With the widget opened, onOpenChange(false)
\* closes the dialog and, if it was open, the reset-on-close effect runs.
TryOpenSnap(t, avail) ==
  /\ t \in BagToSet(payTimers) /\ t.kind = "tryOpenSnap" /\ PayEarliest(t.left)
  /\ IF avail
       THEN /\ snapWidgets' = Sat(snapWidgets)
            /\ showCheckout' = FALSE
            /\ payTimers' = Disarm(payTimers, t)
            /\ IF showCheckout
                 THEN ResetPaymentState
                 ELSE /\ snapPopupOpen' = TRUE
                      /\ UNCHANGED <<paymentStatus, paymentData, errorMessage,
                                     timeRemaining, countdown>>
       ELSE /\ payTimers' =
                 IF MayRetry(t.attempt)
                   THEN Arm(Disarm(payTimers, t),
                            PayTimer("tryOpenSnap", SNAP_RETRY_MS + SNAP_WAIT_MS,
                                     t.attempt + 1))
                   ELSE Disarm(payTimers, t)
            /\ UNCHANGED <<showCheckout, paymentStatus, paymentData, errorMessage,
                           timeRemaining, snapPopupOpen, snapWidgets, countdown>>
  /\ UNCHANGED <<createPending, payments, inflight, cartCleared, pobs>>
  /\ UNCHANGED <<cfgVars, cartVars, sockVars>>

\* "Buka Ulang Halaman Pembayaran" (shown when pending with payment data,
\* disabled while snapPopupOpen): handleOpenSnap.  The button is in the dialog,
\* so onOpenChange(false) closes it and the reset-on-close effect runs.
HandleOpenSnap(avail) ==
  /\ showCheckout /\ paymentStatus = "pending" /\ paymentData # "null"
  /\ ~snapPopupOpen
  /\ IF avail
       THEN /\ snapWidgets' = Sat(snapWidgets)
            /\ showCheckout' = FALSE
            /\ ResetPaymentState
            /\ UNCHANGED pobs
       ELSE /\ errorMessage' = "snap_unavailable"
            /\ paymentStatus' = "failed"
            /\ pobs' = Touched(pobs)
            /\ UNCHANGED <<showCheckout, paymentData, timeRemaining, snapPopupOpen,
                           snapWidgets, countdown>>
  /\ UNCHANGED <<createPending, payments, inflight, cartCleared, payTimers>>
  /\ UNCHANGED <<cfgVars, cartVars, sockVars>>

\* The widget's callbacks (the options given to window.snap.pay); the widget
\* closes with each of them.
SnapCallback(kind) ==
  /\ snapWidgets > 0
  /\ snapWidgets' = snapWidgets - 1
  /\ CASE kind = "onSuccess" ->
            /\ snapPopupOpen' = FALSE
            /\ paymentStatus' = "success"
            /\ payTimers' = Arm(payTimers, PayTimer("snapSuccess", SUCCESS_MS, 0))
            /\ pobs' = Touched(pobs)
            /\ UNCHANGED errorMessage
       [] kind = "onPending" ->
            /\ paymentStatus' = "pending"
            /\ payTimers' = Arm(payTimers, PayTimer("reopen", REOPEN_MS, 0))
            /\ pobs' = Touched(pobs)
            /\ UNCHANGED <<snapPopupOpen, errorMessage>>
       [] kind = "onError" ->
            /\ snapPopupOpen' = FALSE
            /\ errorMessage' = "payment_failed"
            /\ paymentStatus' = "failed"
            /\ payTimers' = Arm(payTimers, PayTimer("reopen", REOPEN_MS, 0))
            /\ pobs' = Touched(pobs)
       [] kind = "onClose" ->
            /\ snapPopupOpen' = FALSE
            /\ payTimers' = Arm(payTimers, PayTimer("reopen", REOPEN_MS, 0))
            /\ pobs' = Touched(pobs)
            /\ UNCHANGED <<paymentStatus, errorMessage>>
  /\ UNCHANGED <<showCheckout, paymentData, timeRemaining, createPending, payments, inflight, cartCleared,
                 countdown>>
  /\ UNCHANGED <<cfgVars, cartVars, sockVars>>

\* payment_status_update (payment_successful or payment_failed) and
\* payment_completed events of a created transaction
PaymentEvent(kind) ==
  /\ kind \in inflight
  /\ inflight' = inflight \ {kind}
  /\ IF kind = "payment_failed"
       THEN /\ paymentStatus' = "failed"
            /\ errorMessage' = "payment_failed"
            /\ UNCHANGED payTimers
       ELSE /\ paymentStatus' = "success"
            /\ payTimers' = Arm(payTimers, PayTimer("socketSuccess", SUCCESS_MS, 0))
            /\ UNCHANGED errorMessage
  /\ pobs' = IF kind # "payment_failed" /\ paymentStatus = "expired"
              THEN [left |-> 0, state |-> "late"]
              ELSE Touched(pobs)
  /\ UNCHANGED <<showCheckout, paymentData, timeRemaining, snapPopupOpen, snapWidgets,
                 createPending, payments, cartCleared, countdown>>
  /\ UNCHANGED <<cfgVars, cartVars, sockVars>>

\* the setTimeout callbacks: re-open the dialog (500 ms after a widget
\* callback), complete the checkout (3 s after a success)
PayTimeout(t) ==
  /\ t \in BagToSet(payTimers) /\ t.kind # "tryOpenSnap" /\ PayEarliest(t.left)
  /\ payTimers' = Disarm(payTimers, t)
  /\ CASE t.kind = "reopen" ->
            /\ showCheckout' = TRUE
            /\ UNCHANGED <<paymentStatus, paymentData, errorMessage, timeRemaining,
                           snapPopupOpen, cartCleared, countdown>>
       [] t.kind = "snapSuccess" ->
            /\ cartCleared' = Sat(cartCleared)
            /\ ResetPaymentState
            /\ UNCHANGED showCheckout
       [] t.kind = "socketSuccess" ->
            /\ cartCleared' = Sat(cartCleared)
            /\ showCheckout' = FALSE
            /\ ResetPaymentState
  /\ UNCHANGED <<snapWidgets, createPending, payments, inflight, pobs>>
  /\ UNCHANGED <<cfgVars, cartVars, sockVars>>

\* the countdown interval ticks: setTimeRemaining(prev => ...)
CountdownTick ==
  /\ timeRemaining > 0 /\ PayEarliest(countdown)
  /\ IF timeRemaining <= 1
       THEN /\ paymentStatus' = "expired"
            /\ errorMessage' = "expired"
            /\ timeRemaining' = 0
            /\ countdown' = 0
       ELSE /\ timeRemaining' = timeRemaining - 1
            /\ countdown' = countdown + COUNTDOWN_MS
            /\ UNCHANGED <<paymentStatus, errorMessage>>
  /\ UNCHANGED <<showCheckout, paymentData, snapPopupOpen, snapWidgets, createPending,
                 payments, inflight, cartCleared, payTimers, pobs>>
  /\ UNCHANGED <<cfgVars, cartVars, sockVars>>

\* "Coba Lagi" (shown when failed or expired): setPaymentStatus('idle')
RetryPayment ==
  /\ showCheckout /\ paymentStatus \in {"failed", "expired"}
  /\ paymentStatus' = "idle"
  /\ pobs' = Touched(pobs)
  /\ UNCHANGED <<showCheckout, paymentData, errorMessage, timeRemaining, snapPopupOpen,
                 snapWidgets, createPending, payments, inflight, cartCleared, payTimers, countdown>>
  /\ UNCHANGED <<cfgVars, cartVars, sockVars>>

\* "Buat Pembayaran Baru" (shown when pending with payment data)
NewPayment ==
  /\ showCheckout /\ paymentStatus = "pending" /\ paymentData # "null"
  /\ snapPopupOpen' = FALSE
  /\ paymentStatus' = "idle"
  /\ pobs' = Touched(pobs)
  /\ UNCHANGED <<showCheckout, paymentData, errorMessage, timeRemaining, snapWidgets,
                 createPending, payments, inflight, cartCleared, payTimers, countdown>>
  /\ UNCHANGED <<cfgVars, cartVars, sockVars>>

\* PayTickMs pass; no timer of CheckoutModal is due
PayTick ==
  /\ \A t \in BagToSet(payTimers) : t.left > 0
  /\ timeRemaining > 0 => countdown > 0
  /\ payTimers # EmptyBag \/ timeRemaining > 0 \/ (pobs.state = "clean" /\ pobs.left > 0)
  /\ payTimers' = Elapse(payTimers, PayTickMs)
  /\ countdown' = (IF timeRemaining > 0 THEN countdown - PayTickMs ELSE countdown)
  /\ pobs' = [pobs EXCEPT !.left = IF pobs.state = "clean" /\ @ > 0
                                        THEN @ - PayTickMs ELSE @]
  /\ UNCHANGED <<showCheckout, paymentStatus, paymentData, errorMessage, timeRemaining,
                 snapPopupOpen, snapWidgets, createPending, payments, inflight, cartCleared>>
  /\ UNCHANGED <<cfgVars, cartVars, sockVars>>

\* every step of the checkout but the emission of create_payment and the
\* gateway's outcome events
PayQuiet ==
  \/ \E c \in {"empty", "items"}, t \in {0, 1} : CartUpdate(c, t)
  \/ Checkout
  \/ CloseCheckout
  \/ \E n \in 1..MaxExpiry : PaymentCreated(n)
  \/ \E err \in GatewayErrors : PaymentError(err)
  \/ \E t \in BagToSet(payTimers), avail \in BOOLEAN : TryOpenSnap(t, avail)
  \/ \E avail \in BOOLEAN : HandleOpenSnap(avail)
  \/ \E kind \in {"onSuccess", "onPending", "onError", "onClose"} : SnapCallback(kind)
  \/ \E t \in BagToSet(payTimers) : PayTimeout(t)
  \/ CountdownTick
  \/ RetryPayment
  \/ NewPayment
  \/ PayTick

PayNext ==
  \/ PayQuiet
  \/ CreatePayment
  \/ \E kind \in PaymentEvents : PaymentEvent(kind)

\* further attempts: up to MaxAttempts create_payment requests in a run, the
\* gateway sending no outcome event
CreatePaymentAgain == HandleCreatePayment(MaxAttempts)

PayAgainNext ==
  \/ PayQuiet
  \/ CreatePaymentAgain

\* the page with no stored configuration
PayStart == Init /\ storeConfig = <<>>

PaySpec == PayStart /\ [][PayNext]_vars

PayAgainSpec == PayStart /\ [][PayAgainNext]_vars

\* expires_at before the client's clock, at it, and less than a second after it
LateDeltas == {-1500, -1, 0, 999}

\* payment_created whose expires_at is not a whole second in the future:
\* remaining = 0
PaymentCreatedLate == \E ms \in LateDeltas : PaymentCreatedIn(ms)

PayLateNext ==
  \/ PayNext
  \/ PaymentCreatedLate

PayLateSpec == PayStart /\ [][PayLateNext]_vars

\* What the browser guarantees: time passes and a due timer or interval runs
\* its callback.  The backend's events and the user's actions are not
\* guaranteed to ever come.
PayFairness ==
  /\ WF_vars(PayTick)
  /\ WF_vars(CountdownTick)
  /\ WF_vars(\E t \in BagToSet(payTimers) : PayTimeout(t))
  /\ WF_vars(\E t \in BagToSet(payTimers), avail \in BOOLEAN : TryOpenSnap(t, avail))

PayLiveSpec == PayStart /\ [][PayNext]_vars /\ PayFairness

PayTypeOK ==
  /\ paymentStatus \in {"idle", "creating", "pending", "success", "failed", "expired"}
  /\ timeRemaining \in 0..MaxExpiry
  /\ snapWidgets \in 0..2 /\ cartCleared \in 0..2

\* ------------------------------------------------------ the scanning page
\* One useSocket instance (hooks/useSettingsSync.ts) with the two components
\* of the scanning page that read it: ScannerView (part_002) and
\* ProductModal (part_000).  The socket is connected.

\* bounds of the scanning page: the time step of its timers, the
\* get_model_labels timers armed at one time, the requests unanswered at
\* one time
PageTickMs == 1000
MaxLabelTimers == 2
MaxLabelRequests == 2

\* delays of the setTimeout calls
SETTLE_MS == 2000
RELOAD_SETTLE_MS == 1000
OPEN_DELAY_MS == 100
LOAD_MS == 1000
RELOAD_MS == 3000

\* data.model_path: undefined, or the '/'-separated segments of the path
NoPath == <<>>
ModelPaths == {NoPath, <<"models", "best.pt">>, <<"models", "">>}
\* data.labels: undefined, or the class names
NoLabels == <<"undefined">>
LabelLists == {NoLabels, <<>>, <<"item">>}

\* path.split('/').pop() || 'unknown'
ModelName(path) ==
  IF path = NoPath \/ path[Len(path)] = "" THEN "unknown" ELSE path[Len(path)]
\* `if (data.model_path)`: a defined, non-empty string
HasPath(path) == path # NoPath /\ path # <<"">>
\* data.labels || []
LabelsOrEmpty(labels) == IF labels = NoLabels THEN <<>> ELSE labels

\* showNotification(message) of this useSocket (70-73)
PageShow(msg) ==
  /\ pageNotification' = <<msg>>
  /\ pageNotifTimers' = pageNotifTimers \cup {NOTIFICATION_MS}
PageQuiet == UNCHANGED <<pageNotification, pageNotifTimers>>

\* socket.emit('get_model_labels') and its siblings
GetModelLabels == <<"get_model_labels">>
GetProducts == <<"get_products">>
ReloadConfig == <<"reload_config">>
InitializeYolo == <<"initialize_yolo">>
ToggleCamera(enabled) == <<"toggle_camera", enabled>>
StartScanning == <<"start_scanning">>
StopScanning == <<"stop_scanning">>

\* the unanswered requests after n more: MaxLabelRequests stands for that
\* many or more
Asked(r, n) == IF r + n >= MaxLabelRequests THEN MaxLabelRequests ELSE r + n
Answered(r) == IF r = MaxLabelRequests THEN {r, r - 1} ELSE {r - 1}

\* the get_model_labels requests in a run of a handler
Requests(es) == Cardinality({i \in 1..Len(es) : es[i] = GetModelLabels})

\* what ProductModal renders from
PageRenderState ==
  <<yoloInitialized, yoloInitializing, currentModel, isModelTabActive, isScanning,
    showCameraOverlay, pageNotification, cart, total, productOpen, isLoadingLabels>>

\* The open effect of ProductModal (part_000 43-59).  Its dependency `socket`
\* is a new object at every render, so every render of the open window clears
\* the timer and arms it again; `fresh` says that the handler stored a new
\* object (a render follows whatever its value), `kept` is the timer when no
\* render follows.
LabelEffect(fresh, kept) ==
  loadDelay' = IF ~productOpen' THEN <<>>
               ELSE IF fresh \/ PageRenderState' # PageRenderState
                      THEN <<OPEN_DELAY_MS>>
                      ELSE kept

\* a run of a handler of the scanning page that emitted es
PageRan(es) ==
  /\ emits' = es
  /\ labelRequests' = Asked(labelRequests, Requests(es))
  /\ UNCHANGED <<cfgVars, payVars>>

\* the model_changed handler without the delayed request: the alternative
\* C34 is tested against
SettleNone(ts, ok) == ts
\* setTimeout(() => socketInstance.emit('get_model_labels'), 2000) of a
\* successful model_changed (247-250)
Settle(ts, ok) ==
  IF ok THEN ts (+) SetToBag({[kind |-> "model_changed", left |-> SETTLE_MS]}) ELSE ts

\* yolo_status event (212-227)
YoloStatus(initialized, initializing, error, path) ==
  /\ ~(initialized /\ initializing)
  /\ yoloInitialized' = initialized
  /\ yoloInitializing' = initializing
  /\ IF error
       THEN /\ PageShow("yolo_error")
            /\ PageRan(<<>>)
            /\ UNCHANGED currentModel
       ELSE IF initialized /\ ~initializing
         THEN /\ PageShow("yolo_ready")
              /\ PageRan(<<GetModelLabels>>)
              /\ currentModel' = (IF HasPath(path) THEN ModelName(path) ELSE currentModel)
         ELSE /\ PageQuiet
              /\ PageRan(<<>>)
              /\ UNCHANGED currentModel
  /\ UNCHANGED <<modelLabels, isModelTabActive, isScanning, showCameraOverlay,
                 productOpen, isLoadingLabels, labelTimers, loadTimers, cartVars>>
  /\ LabelEffect(FALSE, loadDelay)

\* model_labels event, the answer to a get_model_labels request (229-236)
ModelLabels(ok, labels) ==
  /\ labelRequests > 0
  /\ modelLabels' = (IF ok THEN LabelsOrEmpty(labels) ELSE <<>>)
  /\ emits' = <<>>
  /\ labelRequests' \in Answered(labelRequests)
  /\ PageQuiet
  /\ UNCHANGED <<yoloInitialized, yoloInitializing, currentModel, isModelTabActive,
                 isScanning, showCameraOverlay, productOpen, isLoadingLabels,
                 labelTimers, loadTimers, cartVars, cfgVars, payVars>>
  /\ LabelEffect(TRUE, loadDelay)

\* model_changed event (238-252)
ModelChanged(ok, path) ==
  /\ BagCardinality(labelTimers) < MaxLabelTimers
  /\ IF ok
       THEN /\ currentModel' = ModelName(path)
            /\ PageShow("model_changed")
            /\ modelLabels' = <<>>
       ELSE /\ PageShow("model_change_failed")
            /\ UNCHANGED <<currentModel, modelLabels>>
  /\ labelTimers' = Settle(labelTimers, ok)
  /\ PageRan(<<>>)
  /\ UNCHANGED <<yoloInitialized, yoloInitializing, isModelTabActive, isScanning,
                 showCameraOverlay, productOpen, isLoadingLabels, loadTimers, cartVars>>
  /\ LabelEffect(ok, loadDelay)

\* config_reloaded event (254-264)
ConfigReloaded(ok) ==
  /\ BagCardinality(labelTimers) < MaxLabelTimers
  /\ IF ok
       THEN /\ PageShow("config_reloaded")
            /\ labelTimers' = labelTimers (+)
                 SetToBag({[kind |-> "config_reloaded", left |-> RELOAD_SETTLE_MS]})
       ELSE /\ PageShow("config_reload_failed")
            /\ UNCHANGED labelTimers
  /\ PageRan(<<>>)
  /\ UNCHANGED <<yoloInitialized, yoloInitializing, modelLabels, currentModel,
                 isModelTabActive, isScanning, showCameraOverlay, productOpen,
                 isLoadingLabels, loadTimers, cartVars>>
  /\ LabelEffect(FALSE, loadDelay)

\* camera_overlay event (267-275)
CameraOverlay(show) ==
  /\ showCameraOverlay' = show
  /\ PageShow(IF show THEN "camera_off" ELSE "camera_on")
  /\ PageRan(<<>>)
  /\ UNCHANGED <<yoloInitialized, yoloInitializing, modelLabels, currentModel,
                 isModelTabActive, isScanning, productOpen, isLoadingLabels,
                 labelTimers, loadTimers, cartVars>>
  /\ LabelEffect(FALSE, loadDelay)

\* camera_disabled_for_config event (278-285)
CameraDisabledForConfig(ok) ==
  /\ isModelTabActive' = (IF ok THEN TRUE ELSE isModelTabActive)
  /\ PageShow(IF ok THEN "camera_disabled" ELSE "camera_disable_failed")
  /\ PageRan(<<>>)
  /\ UNCHANGED <<yoloInitialized, yoloInitializing, modelLabels, currentModel,
                 isScanning, showCameraOverlay, productOpen, isLoadingLabels,
                 labelTimers, loadTimers, cartVars>>
  /\ LabelEffect(FALSE, loadDelay)

\* camera_restored event (295-302)
CameraRestored(ok) ==
  /\ isModelTabActive' = (IF ok THEN FALSE ELSE isModelTabActive)
  /\ PageShow(IF ok THEN "camera_restored" ELSE "camera_restore_failed")
  /\ PageRan(<<>>)
  /\ UNCHANGED <<yoloInitialized, yoloInitializing, modelLabels, currentModel,
                 isScanning, showCameraOverlay, productOpen, isLoadingLabels,
                 labelTimers, loadTimers, cartVars>>
  /\ LabelEffect(FALSE, loadDelay)

\* scanning_complete event (117-121)
ScanningComplete(c, t) ==
  /\ isScanning
  /\ cart' = c
  /\ total' = t
  /\ isScanning' = FALSE
  /\ PageQuiet
  /\ PageRan(<<>>)
  /\ UNCHANGED <<yoloInitialized, yoloInitializing, modelLabels, currentModel,
                 isModelTabActive, showCameraOverlay, productOpen, isLoadingLabels,
                 labelTimers, loadTimers>>
  /\ LabelEffect(TRUE, loadDelay)

\* ---------------------------------------------------- ScannerView (part_002)

\* A handleCameraToggle that ignores isModelTabActive: the alternative C36 is
\* tested against.
ToggleBlockedNever(active) == FALSE
\* `if (socket.isModelTabActive)` of handleCameraToggle (25-28)
ToggleBlocked(active) == active

\* handleCameraToggle (23-42); hasConfig stands for `hasConfig && config`
HandleCameraToggle(hasConfig) ==
  LET newOverlayState == ~showCameraOverlay
      toggle == <<ToggleCamera(~newOverlayState)>>
      start  == IF ~newOverlayState /\ yoloInitialized /\ hasConfig
                  THEN <<StartScanning>> ELSE <<>>
      \* stopScanning reads the isScanning of the render, not what startScanning set
      stop   == IF newOverlayState /\ isScanning THEN <<StopScanning>> ELSE <<>>
  IN /\ IF ToggleBlocked(isModelTabActive)
          THEN /\ PageShow("toggle_blocked")
               /\ PageRan(<<>>)
               /\ UNCHANGED isScanning
          ELSE /\ PageQuiet
               /\ PageRan(toggle \o start \o stop)
               /\ isScanning' = (IF stop # <<>> THEN FALSE
                                 ELSE IF start # <<>> THEN TRUE ELSE isScanning)
     /\ UNCHANGED <<yoloInitialized, yoloInitializing, modelLabels, currentModel,
                    isModelTabActive, showCameraOverlay, productOpen, isLoadingLabels,
                    labelTimers, loadTimers, cartVars>>
     /\ LabelEffect(FALSE, loadDelay)

\* the camera button (139-147): disabled while the model loads or the model
\* tab holds the camera
CameraToggleClick(hasConfig) ==
  /\ ~yoloInitializing /\ ~isModelTabActive
  /\ HandleCameraToggle(hasConfig)

\* handleInitializeYolo (45-47) of the button shown while the model is
\* neither loaded nor loading (149-159)
HandleInitializeYolo ==
  /\ ~yoloInitialized /\ ~yoloInitializing
  /\ emits # <<InitializeYolo>>
  /\ PageQuiet
  /\ PageRan(<<InitializeYolo>>)
  /\ UNCHANGED <<yoloInitialized, yoloInitializing, modelLabels, currentModel,
                 isModelTabActive, isScanning, showCameraOverlay, productOpen,
                 isLoadingLabels, labelTimers, loadTimers, cartVars>>
  /\ LabelEffect(FALSE, loadDelay)

\* --------------------------------------------------- ProductModal (part_000)

\* setOpen(true) of the products button (112), setOpen(false) of the window (122)
SetProductOpen(o) ==
  /\ o # productOpen
  /\ productOpen' = o
  /\ PageQuiet
  /\ PageRan(<<>>)
  /\ UNCHANGED <<yoloInitialized, yoloInitializing, modelLabels, currentModel,
                 isModelTabActive, isScanning, showCameraOverlay, isLoadingLabels,
                 labelTimers, loadTimers, cartVars>>
  /\ LabelEffect(FALSE, loadDelay)

\* A reload button that is never disabled: the alternative C35 is tested against.
ReloadDisabledNever(loading) == FALSE
\* disabled={isLoadingLabels} of the reload button (295)
ReloadDisabled(loading) == loading

\* the reload button of the label list (281-299), shown while yoloInitialized
ReloadLabels ==
  /\ productOpen /\ yoloInitialized /\ ~ReloadDisabled(isLoadingLabels)
  /\ isLoadingLabels' = TRUE
  /\ loadTimers' = loadTimers \cup {RELOAD_MS}
  /\ PageQuiet
  /\ PageRan(<<ReloadConfig, GetModelLabels>>)
  /\ UNCHANGED <<yoloInitialized, yoloInitializing, modelLabels, currentModel,
                 isModelTabActive, isScanning, showCameraOverlay, productOpen,
                 labelTimers, cartVars>>
  /\ LabelEffect(FALSE, loadDelay)

\* Timers fire in the order of their due times.
PageEarliest(left) ==
  /\ left <= 0
  /\ \A r \in pageNotifTimers \cup loadTimers : left <= r
  /\ \A t \in BagToSet(labelTimers) : left <= t.left
  /\ loadDelay # <<>> => left <= loadDelay[1]

\* the timer of the open effect fires (46-55)
LoadDelayFire ==
  /\ loadDelay # <<>> /\ PageEarliest(loadDelay[1])
  /\ IF yoloInitialized
       THEN /\ isLoadingLabels' = TRUE
            /\ loadTimers' = loadTimers \cup {LOAD_MS}
            /\ emits' = <<GetProducts, GetModelLabels>>
       ELSE /\ UNCHANGED <<isLoadingLabels, loadTimers>>
            /\ emits' = <<GetProducts>>
  /\ labelRequests' = Asked(labelRequests, Requests(emits'))
  /\ PageQuiet
  /\ UNCHANGED <<yoloInitialized, yoloInitializing, modelLabels, currentModel,
                 isModelTabActive, isScanning, showCameraOverlay, productOpen,
                 labelTimers, cartVars, cfgVars, payVars>>
  /\ LabelEffect(FALSE, <<>>)

\* setTimeout(() => setIsLoadingLabels(false), ...) fires (53, 292)
LoadTimerFire ==
  /\ \E r \in loadTimers : PageEarliest(r) /\ loadTimers' = loadTimers \ {r}
  /\ isLoadingLabels' = FALSE
  /\ PageQuiet
  /\ PageRan(<<>>)
  /\ UNCHANGED <<yoloInitialized, yoloInitializing, modelLabels, currentModel,
                 isModelTabActive, isScanning, showCameraOverlay, productOpen,
                 labelTimers, cartVars>>
  /\ LabelEffect(FALSE, loadDelay)

\* setTimeout(() => setNotification(null), 3000) of this useSocket fires (72)
PageNotificationTimeout ==
  /\ \E r \in pageNotifTimers : PageEarliest(r) /\ pageNotifTimers' = pageNotifTimers \ {r}
  /\ pageNotification' = <<>>
  /\ PageRan(<<>>)
  /\ UNCHANGED <<yoloInitialized, yoloInitializing, modelLabels, currentModel,
                 isModelTabActive, isScanning, showCameraOverlay, productOpen,
                 isLoadingLabels, labelTimers, loadTimers, cartVars>>
  /\ LabelEffect(FALSE, loadDelay)

\* a get_model_labels timer fires (248-250, 258-260)
LabelTimerFire(t) ==
  /\ t \in BagToSet(labelTimers) /\ PageEarliest(t.left)
  /\ labelTimers' = labelTimers (-) SetToBag({t})
  /\ PageQuiet
  /\ PageRan(<<GetModelLabels>>)
  /\ UNCHANGED <<yoloInitialized, yoloInitializing, modelLabels, currentModel,
                 isModelTabActive, isScanning, showCameraOverlay, productOpen,
                 isLoadingLabels, loadTimers, cartVars>>
  /\ LabelEffect(FALSE, loadDelay)

\* PageTickMs pass; a timer is armed and none is due
PageTick ==
  /\ \A r \in pageNotifTimers \cup loadTimers : r > 0
  /\ \A t \in BagToSet(labelTimers) : t.left > 0
  /\ loadDelay # <<>> => loadDelay[1] > 0
  /\ pageNotifTimers # {} \/ loadTimers # {} \/ labelTimers # EmptyBag \/ loadDelay # <<>>
  /\ pageNotifTimers' = {r - PageTickMs : r \in pageNotifTimers}
  /\ loadTimers' = {r - PageTickMs : r \in loadTimers}
  /\ labelTimers' = Elapse(labelTimers, PageTickMs)
  /\ loadDelay' = (IF loadDelay = <<>> THEN <<>> ELSE <<loadDelay[1] - PageTickMs>>)
  /\ emits' = <<>>
  /\ UNCHANGED <<yoloInitialized, yoloInitializing, modelLabels, currentModel,
                 isModelTabActive, isScanning, showCameraOverlay, pageNotification,
                 productOpen, isLoadingLabels, labelRequests, cartVars, cfgVars, payVars>>

\* the model and its labels
ModelNext ==
  \/ \E i, g, e \in BOOLEAN, p \in ModelPaths : YoloStatus(i, g, e, p)
  \/ \E ok \in BOOLEAN, ls \in LabelLists : ModelLabels(ok, ls)
  \/ \E ok \in BOOLEAN, p \in ModelPaths : ModelChanged(ok, p)
  \/ \E ok \in BOOLEAN : ConfigReloaded(ok)
  \/ \E t \in BagToSet(labelTimers) : LabelTimerFire(t)
  \/ PageNotificationTimeout
  \/ PageTick

ModelSpec == PayStart /\ [][ModelNext]_vars

\* the product window
ProductNext ==
  \/ \E i, g, e \in BOOLEAN : YoloStatus(i, g, e, NoPath)
  \/ \E ok \in BOOLEAN, ls \in LabelLists : ModelLabels(ok, ls)
  \/ \E o \in BOOLEAN : SetProductOpen(o)
  \/ ReloadLabels
  \/ LoadDelayFire
  \/ LoadTimerFire
  \/ PageNotificationTimeout
  \/ PageTick

\* Time passes and due timers fire: what the browser guarantees.  Nothing is
\* assumed of the backend's events and of the user.
ProductFairness ==
  /\ WF_vars(PageTick)
  /\ WF_vars(LoadDelayFire)
  /\ WF_vars(LoadTimerFire)
  /\ WF_vars(PageNotificationTimeout)

ProductSpec == PayStart /\ [][ProductNext]_vars /\ ProductFairness

\* the scanning view: its camera button, and handleCameraToggle called in
\* any state
ToggleNext ==
  \/ \E i, g, e \in BOOLEAN : YoloStatus(i, g, e, NoPath)
  \/ \E show \in BOOLEAN : CameraOverlay(show)
  \/ \E ok \in BOOLEAN : CameraDisabledForConfig(ok)
  \/ \E ok \in BOOLEAN : CameraRestored(ok)
  \/ \E c \in {<<"empty", 0>>, <<"items", 1>>} : ScanningComplete(c[1], c[2])
  \/ HandleInitializeYolo
  \/ \E hasConfig \in BOOLEAN : CameraToggleClick(hasConfig)
  \/ \E hasConfig \in BOOLEAN : HandleCameraToggle(hasConfig)
  \/ PageNotificationTimeout
  \/ PageTick

ToggleSpec == PayStart /\ [][ToggleNext]_vars

PageTypeOK ==
  /\ yoloInitialized \in BOOLEAN /\ yoloInitializing \in BOOLEAN
  /\ modelLabels \in {<<>>, <<"item">>}
  /\ currentModel \in {"", "best.pt", "unknown"}
  /\ isModelTabActive \in BOOLEAN /\ isScanning \in BOOLEAN
  /\ showCameraOverlay \in BOOLEAN /\ productOpen \in BOOLEAN
  /\ isLoadingLabels \in BOOLEAN
  /\ labelRequests \in 0..MaxLabelRequests
  /\ BagCardinality(labelTimers) <= MaxLabelTimers

\* ------------------------------------------------------------------ claims

\* The latest acquisition of the session has had no camera_initialized event
\* and no timeout callback, and its 30 seconds have passed with no timer due.
DeadlinePassed ==
  /\ obs.acqState = "pending"
  /\ obs.acqLeft <= 0
  /\ \A t \in initTimers : t.left > 0

\* C1: for every acquisition (save, restore on close, restore on tab change),
\* if no camera_initialized event is delivered then once its 30-second
\* deadline has passed the busy flags isClosingModal, isInitializingCamera
\* and isRestoringCamera are all false and the deferred close has been
\* performed, whatever other events and re-renders happened meanwhile.
C1_DeadlineUnblocks ==
  DeadlinePassed =>
    /\ ~Busy
    /\ (obs.acqKind \in {"save", "close"} => ~showSettings)

\* A continuation of an acquisition runs: the camera_initialized handler or a
\* 30-second timeout callback.
Continuation ==
  \/ \E ok \in BOOLEAN, cam \in Cameras : CameraInitialized(ok, cam)
  \/ \E t \in initTimers : TimeoutFire(t)

C3_LateEventNoEffect ==
  [][(obs.acqState \in {"event", "timeout"} /\ obs.inits >= 2 /\ Continuation) =>
       /\ UNCHANGED RenderState
       /\ calls' = <<>>]_vars

\* C4: after the view has opened (and the configuration has been loaded) the
\* committed camera previousCameraId changes only in a step that handles a
\* camera_initialized success event; it does not change when a save is
\* requested, when the store write completes or when a timeout fires.
C4_CommittedOnlyOnSuccess ==
  [][(showSettings /\ loadPc = "idle" /\ previousCameraId' # previousCameraId) =>
       \E cam \in Cameras : CameraInitialized(TRUE, cam)]_vars

\* C5: if selectedCameraId equals previousCameraId when handleConfigClose or
\* handleTabChange runs, no initialize_camera is emitted (no command, no
\* timer, no restoring flag) and the close or the tab change takes effect in
\* that very step.
C5_NoRestoreWhenUnchanged ==
  [][selectedCameraId = previousCameraId =>
       /\ ConfigClose =>
            /\ calls' = <<HandleClose>>
            /\ ~showSettings'
            /\ UNCHANGED <<sentInit, isRestoringCamera, initializationTimeout>>
            /\ initTimers' \subseteq initTimers
       /\ \A newTab \in Tabs :
            TabChange(newTab) =>
              /\ calls' = <<>>
              /\ activeTab' = newTab
              /\ UNCHANGED <<sentInit, isRestoringCamera, pendingTabChange,
                             initializationTimeout>>
              /\ initTimers' \subseteq initTimers]_vars

\* the view was closed by handleConfigClose from the model tab, with the
\* cameras listed, the selection unchanged and no initialize_camera ever emitted
C5_Witness ==
  /\ calls = <<HandleClose>>
  /\ ~showSettings
  /\ selectedCameraId = previousCameraId
  /\ activeTab = "model" /\ availableCameras # {}
  /\ sentInit = {}

\* C6: in a session that selects another camera and closes without saving,
\* exactly one initialize_camera is emitted, also when the close intent is
\* repeated while the restore is pending: a handleConfigClose that runs while
\* the restore emitted by an earlier handleConfigClose of the session is
\* pending emits no initialize_camera.
C6_OneRestoreCommand ==
  [][(ConfigClose /\ obs.acqKind = "close" /\ obs.acqState = "pending") =>
       \A i \in DOMAIN calls' : calls'[i][1] # "initialize_camera"]_vars

\* C7: when a save with camera d selected has emitted its initialize_camera
\* and the camera_initialized success event carrying d is handled before the
\* deadline, then after that step the committed camera previousCameraId is d,
\* the view is closed and cameraEnabled is false.
C7_SaveSuccessCommits ==
  [][\A cam \in Cameras :
       (/\ CameraInitialized(TRUE, cam)
        /\ obs.acqKind = "save" /\ obs.acqState = "pending" /\ obs.acqLeft > 0
        /\ config = <<cam>>) =>
         /\ previousCameraId' = cam
         /\ ~showSettings'
         /\ ~cameraEnabled']_vars

\* C8: if the initialize_camera of a save gets no camera_initialized event
\* within 30 seconds, the save completes by timeout: once the deadline has
\* passed the timeout callback has run (so its error notification was
\* shown) and the view is closed.
C8_SaveTimeoutCloses ==
  (/\ obs.acqKind = "save"
   /\ obs.acqState \in {"pending", "timeout"}
   /\ obs.acqLeft <= 0
   /\ \A t \in initTimers : t.left > 0) =>
    /\ obs.acqState = "timeout"
    /\ ~showSettings

\* no initialize_camera among the calls cs
NoInitialize(cs) == \A i \in DOMAIN cs : cs[i][1] # "initialize_camera"

\* C9: on save, initialize_camera is emitted only after the store write has
\* returned success: the step that starts the write emits nothing and arms no
\* timer, and when the write fails no initialize_camera is emitted, no timer
\* is armed, isClosingModal and isInitializingCamera are cleared, the error
\* notification is shown and the view is not closed.
C9_StoreFailureAbortsSave ==
  [][/\ SaveClick =>
          /\ NoInitialize(calls')
          /\ UNCHANGED <<sentInit, initializationTimeout>>
          /\ initTimers' \subseteq initTimers
     /\ SaveStoreDone(FALSE) =>
          /\ NoInitialize(calls')
          /\ UNCHANGED <<sentInit, initializationTimeout>>
          /\ initTimers' \subseteq initTimers
          /\ ~isClosingModal' /\ ~isInitializingCamera'
          /\ notification' = <<"save_failed">>
          /\ calls' = <<Notify(<<"save_failed">>)>>
          /\ showSettings' = showSettings]_vars

\* a store write has just failed with the view open: the failure is notified,
\* the flags are cleared and nothing was ever emitted
C9_Witness ==
  /\ calls = <<Notify(<<"save_failed">>)>>
  /\ showSettings
  /\ ~isClosingModal /\ ~isInitializingCamera
  /\ sentInit = {} /\ initTimers = {}

\* C10: a transaction created with expires_at = now + N seconds, with no
\* success or failure outcome and no close or retry by the user since, has
\* paymentStatus expired once the N seconds have passed and no timer is due,
\* whether or not the payment widget was opened meanwhile.
C10_ExpiresAfterDeadline ==
  (/\ pobs.state = "clean" /\ pobs.left <= 0
   /\ \A t \in BagToSet(payTimers) : t.left > 0
   /\ timeRemaining > 0 => countdown > 0)
    => paymentStatus = "expired"

SuccessEvents == {"payment_successful", "payment_completed"}

\* the number of armed grace timers of the gateway success events
GraceTimers(ts) ==
  LET due == {t \in BagToSet(ts) : t.kind = "socketSuccess"}
      RECURSIVE Sum(_)
      Sum(S) == IF S = {} THEN 0
                ELSE LET t == CHOOSE x \in S : TRUE IN ts[t] + Sum(S \ {t})
  IN Sum(due)

\* C11: a gateway success event (payment_successful or payment_completed)
\* handled while paymentStatus is expired arms one more 3-second grace timer,
\* no step but the firing of a grace timer removes one, and each firing emits
\* checkout_complete: the late event still clears the cart.
C11_LateSuccessClearsCart ==
  [][/\ \A kind \in SuccessEvents :
          (PaymentEvent(kind) /\ paymentStatus = "expired")
            => GraceTimers(payTimers') = GraceTimers(payTimers) + 1
     /\ GraceTimers(payTimers') < GraceTimers(payTimers)
          => /\ GraceTimers(payTimers') = GraceTimers(payTimers) - 1
             /\ \E t \in BagToSet(payTimers) : t.kind = "socketSuccess" /\ t.left <= 0
             /\ cartCleared' = Sat(cartCleared)]_vars

\* a late success event was handled, its grace timer fired and the cart-clear
\* command went out
C11_Witness ==
  /\ pobs.state = "late"
  /\ GraceTimers(payTimers) = 0
  /\ cartCleared >= 1
  /\ paymentStatus = "idle"

\* C12: for one payment attempt, whichever of the widget's onSuccess and the
\* gateway success events arrive and in whatever order, checkout_complete is
\* emitted exactly once: with a single create_payment in the run, the
\* cart-clear command has gone out at most once.
C12_OneCheckoutComplete == payments = 1 => cartCleared <= 1

\* C13: when the widget's onClose callback runs and no success or failure
\* outcome (and no close or retry by the user) came since payment_created,
\* paymentStatus is pending afterwards, snapPopupOpen is false and the
\* re-opening of the checkout view is under way (its 500 ms timer is armed).
C13_CloseKeepsPending ==
  [][(SnapCallback("onClose") /\ pobs.state = "clean")
       => /\ paymentStatus' = "pending"
          /\ ~snapPopupOpen'
          /\ \E t \in BagToSet(payTimers') : t.kind = "reopen" /\ t.left = REOPEN_MS]_vars

\* C14: window.snap.pay is never invoked while a widget opened before has had
\* none of its callbacks yet: at most one widget is open at any time.
C14_OneWidgetAtATime == snapWidgets <= 1

\* C15: no create_payment command is emitted while the payment widget is
\* open: not, in particular, while exactly one widget is showing and
\* snapPopupOpen is true.
C15_NoCreateWhileWidgetOpen ==
  [][payments' # payments => ~(snapWidgets = 1 /\ snapPopupOpen)]_vars

\* C16: handleCreatePayment run with a cart that has no item ends with
\* paymentStatus idle and a non-empty error message and emits no
\* create_payment (no request is counted or left pending).
C16_EmptyCartFailsFast ==
  [][((\E max \in {MaxPayments, MaxAttempts} : HandleCreatePayment(max))
        /\ cart = "empty")
       => /\ paymentStatus' = "idle"
          /\ errorMessage' # ""
          /\ UNCHANGED <<createPending, payments>>]_vars

\* "Bayar Sekarang" was clicked with no item in the cart (and a positive total)
C16_Witness ==
  /\ errorMessage = "cart_empty"
  /\ paymentStatus = "idle"
  /\ cart = "empty" /\ total > 0
  /\ showCheckout
  /\ ~createPending /\ payments = 0

\* the edges of the payment status the specification lists
StatusEdges ==
  {<<"idle", "creating">>, <<"creating", "pending">>, <<"creating", "failed">>,
   <<"pending", "success">>, <<"pending", "failed">>, <<"pending", "expired">>}
    \cup {<<st, "idle">> : st \in {"creating", "pending", "success", "failed", "expired"}}

\* C17: paymentStatus only changes along the listed edges: to creating from
\* idle, to pending from creating, to success or expired from pending, to
\* failed from creating or pending, and to idle from anywhere.
C17_StatusEdges ==
  [][paymentStatus' # paymentStatus
       => <<paymentStatus, paymentStatus'>> \in StatusEdges]_vars

\* C18: create_payment is emitted only by handleCreatePayment, and from
\* failed or expired paymentStatus returns to idle only by the user's retry
\* ("Coba Lagi") or in a step that closes the checkout view.
C18_NoAutomaticRetry ==
  [][/\ payments' # payments
          => \E max \in {MaxPayments, MaxAttempts} : HandleCreatePayment(max)
     /\ (paymentStatus \in {"failed", "expired"} /\ paymentStatus' = "idle")
          => (RetryPayment \/ (showCheckout /\ ~showCheckout'))]_vars

\* the pending attempts of tryOpenSnap, one per chain started by a payment_created
Tries(ts) ==
  LET RECURSIVE Sum(_)
      Sum(S) == IF S = {} THEN 0
                ELSE LET t == CHOOSE u \in S : TRUE
                     IN (IF t.kind = "tryOpenSnap" THEN ts[t] ELSE 0) + Sum(S \ {t})
  IN Sum(BagToSet(ts))

C20_ResetCancelsTimers ==
  [][(/\ paymentStatus = "idle" /\ ~createPending
      /\ \/ CountdownTick
         \/ \E t \in BagToSet(payTimers), avail \in BOOLEAN : TryOpenSnap(t, avail))
        => UNCHANGED <<paymentStatus, paymentData, errorMessage, timeRemaining,
                       showCheckout, snapPopupOpen, snapWidgets, cartCleared>>]_vars

\* C21: with the view closed while the acquisition of a save is pending, the
\* camera_initialized event for the saved camera and the timeout of that
\* acquisition run no UI continuation: no notification, no change of
\* cameraEnabled and no handleClose().
C21_ClosedViewSuppressesSave ==
  [][(/\ ~showSettings /\ obs.acqKind = "save" /\ obs.acqState = "pending"
      /\ \/ \E ok \in BOOLEAN : CameraInitialized(ok, ConfigCameraId(config))
         \/ \E t \in initTimers : TimeoutFire(t))
        => /\ calls' = <<>>
           /\ UNCHANGED <<notification, cameraEnabled, showSettings>>]_vars

\* C22: a camera_initialized event reporting failure that resolves the
\* pending acquisition notifies the failure and still completes the deferred
\* action: the view is closed for a save and for a restore on close, the
\* active tab becomes the pending target tab for a restore on tab change, and
\* the three busy flags and pendingTabChange are cleared.
C22_FailureStillCompletes ==
  [][\A cam \in Cameras :
       (CameraInitialized(FALSE, cam) /\ obs.acqState = "pending")
         => /\ calls'[1] = Notify(<<"init_failed">>)
            /\ notification' = <<"init_failed">>
            /\ ~isClosingModal' /\ ~isInitializingCamera' /\ ~isRestoringCamera'
            /\ pendingTabChange' = NoTab
            /\ obs.acqKind \in {"save", "close"} => ~showSettings'
            /\ obs.acqKind = "tab"
                 => /\ pendingTabChange # NoTab
                    /\ activeTab' = pendingTabChange]_vars

\* the restore started by leaving the model tab is the pending acquisition
TabRestorePending(o) == o.acqKind = "tab" /\ o.acqState = "pending"

\* C23: leaving the model tab with another camera selected starts a restore
\* and defers the switch: handleTabChange leaves activeTab, records the
\* requested tab and resets selectedCameraId to previousCameraId; while the
\* restore is pending neither activeTab nor the recorded tab changes; the
\* step that resolves it (a camera_initialized event or the timeout) sets
\* activeTab to the requested tab, with selectedCameraId = previousCameraId.
C23_TabSwitchDeferred ==
  [][/\ \A newTab \in Tabs :
          (TabChange(newTab) /\ activeTab = "model" /\ SelectionChanged)
            => /\ UNCHANGED activeTab
               /\ TabRestorePending(obs')
               /\ pendingTabChange' = newTab
               /\ selectedCameraId' = previousCameraId'
     /\ (TabRestorePending(obs) /\ TabRestorePending(obs'))
          => UNCHANGED <<activeTab, pendingTabChange>>
     /\ (TabRestorePending(obs) /\ obs'.acqState \in {"event", "timeout"})
          => /\ activeTab' = pendingTabChange
             /\ pendingTabChange \in Tabs \ {"model"}
             /\ selectedCameraId' = previousCameraId'
     /\ (TabRestorePending(obs) /\ activeTab' # activeTab)
          => obs'.acqState \in {"event", "timeout"}]_vars

\* a camera_initialized event has resolved a restore on tab change with
\* success: the view shows the requested tab and the committed camera
C23_Witness ==
  /\ obs.acqKind = "tab" /\ obs.acqState = "event"
  /\ calls = <<Notify(<<"restored", previousCameraId>>)>>
  /\ showSettings /\ activeTab # "model"
  /\ selectedCameraId = previousCameraId
  /\ ~isRestoringCamera /\ pendingTabChange = NoTab

\* C24: picking a camera in the camera Select only sets selectedCameraId: the
\* handler emits no command and calls nothing else, no timer is armed, and
\* previousCameraId, the busy flags, pendingTabChange, activeTab, the
\* configuration and the view stay as they were.
C24_SelectionIsStaged ==
  [][\A c \in Cameras :
       SelectCamera(c)
         => /\ selectedCameraId' = c
            /\ calls' = <<>>
            /\ sentInit' = sentInit
            /\ initTimers' \subseteq initTimers
            /\ notifTimers' = notifTimers
            /\ UNCHANGED <<previousCameraId, isInitializingCamera, isRestoringCamera,
                           isClosingModal, pendingTabChange, activeTab,
                           initializationTimeout, config, storeConfig, showSettings,
                           notification, cameraEnabled, obs>>]_vars

\* a camera was picked and nothing else has happened since the view opened:
\* the selection differs from the committed camera, no command was emitted
\* and no timer is armed
C24_Witness ==
  /\ showSettings /\ activeTab = "model"
  /\ selectedCameraId # previousCameraId
  /\ calls = <<>> /\ sentInit = {} /\ initTimers = {} /\ notifTimers = {}
  /\ ~Busy /\ obs = NoAcq

\* C25: when the view opens, kill_camera_for_config is emitted and
\* previousCameraId and selectedCameraId are both set to the cameraId of the
\* loaded configuration, or to 0 when no configuration is loaded.
C25_OpenReleasesAndRecords ==
  [][OpenConfig
       => /\ showSettings'
          /\ calls' = <<KillCamera>>
          /\ previousCameraId' = (IF config = <<>> THEN 0 ELSE config[1])
          /\ selectedCameraId' = (IF config = <<>> THEN 0 ELSE config[1])]_vars

\* the view has just been opened again, after a session that emitted an
\* initialize_camera, with camera 1 in the loaded configuration
C25_Witness ==
  /\ showSettings /\ calls = <<KillCamera>> /\ obs = NoAcq /\ sentInit # {}
  /\ config = <<1>> /\ previousCameraId = 1 /\ selectedCameraId = 1

\* the kill_camera_for_config commands among the calls cs of a handler run
Kills(cs) == Cardinality({i \in DOMAIN cs : cs[i] = KillCamera})

\* C26: kill_camera_for_config is emitted only in a step that takes the view
\* from closed to open, and once in such a step; a step taken with the view
\* already open, such as the completion of a save, emits none.
C26_KillOnlyOnOpening ==
  [][/\ Kills(calls') > 0 => (~showSettings /\ showSettings')
     /\ (~showSettings /\ showSettings') => Kills(calls') = 1]_vars

\* C27: whenever the view is closed and nothing is pending (no acquisition of
\* the session awaits its resolution and no save is being written),
\* selectedCameraId equals previousCameraId.
C27_ConvergedWhenClosed ==
  (~showSettings /\ obs.acqState # "pending" /\ savePc = "idle")
    => selectedCameraId = previousCameraId

\* C28: in every state where paymentStatus is pending, paymentData holds the
\* data of the transaction.
C28_PendingHasData == paymentStatus = "pending" => paymentData # "null"

\* C29: a transaction whose remaining time is zero is expired, also when the
\* payment_created event already carries an expires_at that is not in the
\* future: no second passes in a state with paymentStatus pending,
\* paymentData populated and timeRemaining zero.
C29_ZeroRemainingExpires ==
  [][PayTick => ~(/\ paymentStatus = "pending" /\ paymentData # "null"
                  /\ timeRemaining = 0)]_vars

\* C30: a create_payment that is never answered is resolved by a deadline:
\* with timers and time running, and whatever the backend and the user do or
\* do not do, paymentStatus creating is always followed by another status.
C30_CreatingResolved ==
  (paymentStatus = "creating") ~> (paymentStatus # "creating")

\* C31: a gateway success event that arrives after its attempt has completed
\* (checkout_complete emitted, no grace timer left) and the session has been
\* reset is dropped: it leaves paymentStatus and the view as they are and arms
\* no timer, so no further checkout_complete or reset follows from it.
C31_LateSuccessDropped ==
  [][\A kind \in SuccessEvents :
       (/\ PaymentEvent(kind)
        /\ cartCleared >= 1 /\ GraceTimers(payTimers) = 0
        /\ paymentStatus = "idle" /\ paymentData = "null")
         => UNCHANGED <<paymentStatus, payTimers, cartCleared, showCheckout>>]_vars

\* C32: a payment_error event received while paymentStatus is creating sets
\* failed with a non-empty message, the gateway's text or the default when
\* the event has none; it opens no widget, arms no timer and starts no
\* countdown.
C32_ErrorFailsCreation ==
  [][\A err \in GatewayErrors :
       (PaymentError(err) /\ paymentStatus = "creating")
         => /\ paymentStatus' = "failed"
            /\ errorMessage' # ""
            /\ errorMessage' = (IF err = "" THEN "create_failed" ELSE err)
            /\ UNCHANGED <<snapWidgets, snapPopupOpen, payTimers, timeRemaining,
                           countdown, paymentData, showCheckout>>]_vars

\* the creation was refused by an event without text: the dialog shows failed
\* with the default message, no widget, no timer and no countdown
C32_Witness ==
  /\ paymentStatus = "failed" /\ errorMessage = "create_failed"
  /\ showCheckout /\ payments = 1 /\ ~createPending
  /\ snapWidgets = 0 /\ payTimers = EmptyBag /\ timeRemaining = 0
  /\ paymentData = "null"

\* C33: modelLabels is non-empty only while the detection model is ready: in
\* every reachable state, modelLabels # [] implies yoloInitialized and not
\* yoloInitializing.
C33_LabelsOnlyWhenReady ==
  modelLabels # <<>> => (yoloInitialized /\ ~yoloInitializing)

\* the armed get_model_labels timers of model_changed events
SettleTimers(ts) ==
  BagCardinality([t \in {u \in BagToSet(ts) : u.kind = "model_changed"} |-> ts[t]])

\* C34: a model_changed success event clears modelLabels at once, emits
\* nothing itself and arms exactly one timer of the settle delay; that timer
\* fires when the delay has passed and emits exactly one get_model_labels; no
\* such timer goes away otherwise.  A model_changed failure event arms and
\* emits nothing and leaves modelLabels and currentModel as they are.
C34_ModelChangedRefreshesLabels ==
  [][/\ \A ok \in BOOLEAN, p \in ModelPaths :
          ModelChanged(ok, p) =>
            /\ emits' = <<>>
            /\ labelRequests' = labelRequests
            /\ IF ok
                 THEN /\ modelLabels' = <<>>
                      /\ labelTimers' = labelTimers (+)
                           SetToBag({[kind |-> "model_changed", left |-> SETTLE_MS]})
                 ELSE UNCHANGED <<modelLabels, currentModel, labelTimers>>
     /\ \A t \in BagToSet(labelTimers) :
          (LabelTimerFire(t) /\ t.kind = "model_changed") =>
            /\ t.left <= 0 /\ t.left > -PageTickMs
            /\ emits' = <<GetModelLabels>>
            /\ SettleTimers(labelTimers') = SettleTimers(labelTimers) - 1
     /\ SettleTimers(labelTimers') < SettleTimers(labelTimers) =>
          \E t \in BagToSet(labelTimers) : LabelTimerFire(t)]_vars

\* the timer of a model_changed success event has fired, the settle delay
\* after the event
C34_Witness ==
  /\ emits = <<GetModelLabels>>
  /\ currentModel = "best.pt"
  /\ modelLabels = <<>>
  /\ pageNotification = <<"model_changed">>
  /\ pageNotifTimers = {NOTIFICATION_MS - SETTLE_MS}
  /\ labelTimers = EmptyBag

\* C36: while isModelTabActive is true, handleCameraToggle emits no command
\* and changes no scanning state; it only shows a notification.
\* isModelTabActive becomes true only on a camera_disabled_for_config success
\* event and false only on a camera_restored success event.
C36_ToggleBlockedByModelTab ==
  [][/\ \A hasConfig \in BOOLEAN :
          (HandleCameraToggle(hasConfig) /\ isModelTabActive) =>
            /\ emits' = <<>>
            /\ pageNotification' = <<"toggle_blocked">>
            /\ UNCHANGED <<isScanning, showCameraOverlay, isModelTabActive,
                           yoloInitialized, yoloInitializing, cartVars>>
     /\ (~isModelTabActive /\ isModelTabActive') => CameraDisabledForConfig(TRUE)
     /\ (isModelTabActive /\ ~isModelTabActive') => CameraRestored(TRUE)]_vars

\* handleCameraToggle ran while the model tab held the camera and a scan was
\* running
C36_Witness ==
  /\ isModelTabActive
  /\ pageNotification = <<"toggle_blocked">>
  /\ pageNotifTimers = {NOTIFICATION_MS}
  /\ isScanning
  /\ emits = <<>>

\* C35: isLoadingLabels, once set by the load of the open effect or by the
\* reload button, becomes false again: while it is true a clearing timer of at
\* most the reload timeout is armed, every timer that fires clears it, and so
\* it always becomes false, whatever model_labels events are delivered.  The
\* reload button starts no reload while it is true.
C35_LoadingIndicatorClears ==
  /\ isLoadingLabels ~> ~isLoadingLabels
  /\ [](isLoadingLabels => (loadTimers # {} /\ \A r \in loadTimers : r <= RELOAD_MS))
  /\ [][/\ LoadTimerFire => ~isLoadingLabels'
        /\ (LoadDelayFire /\ yoloInitialized) =>
             (isLoadingLabels' /\ LOAD_MS \in loadTimers')
        /\ ReloadLabels =>
             (~isLoadingLabels /\ isLoadingLabels' /\ RELOAD_MS \in loadTimers')]_vars

\* the indicator was set by a load and a timer has cleared it, while the
\* model answered no request
C35_Witness ==
  /\ productOpen /\ yoloInitialized
  /\ ~isLoadingLabels
  /\ loadTimers # {}
  /\ modelLabels = <<>>
  /\ labelRequests = MaxLabelRequests

\* The time the notification on display has been set: it was set by the
\* latest showNotification, whose timer is the one with the most time left.
NotificationAge ==
  NOTIFICATION_MS - CHOOSE r \in pageNotifTimers : \A q \in pageNotifTimers : q <= r

\* C38: a notification stays set for its full 3 seconds unless a newer one
\* replaces it: the timer that clears a notification is that notification's
\* own, never the timer of an older one.
C38_NotificationKeepsFullTime ==
  [][(PageNotificationTimeout /\ pageNotification # <<>>) =>
       NotificationAge >= NOTIFICATION_MS]_vars

\* C37: timeRemaining is never negative.  An accepted payment_created sets it
\* to the whole seconds from the client's clock to expires_at, and to 0 when
\* expires_at is not later; a countdown tick happens only while it is
\* positive and takes exactly 1 off; at 0 only a payment_created changes it;
\* resetPaymentState sets it to 0.
C37_RemainingNeverNegative ==
  /\ [](timeRemaining >= 0)
  /\ [][/\ \A ms \in LateDeltas \cup {n * MS_PER_SECOND : n \in 1..MaxExpiry} :
             PaymentCreatedIn(ms) =>
               LET m == IF ms < 0 THEN 0 ELSE ms
               IN /\ timeRemaining' * MS_PER_SECOND <= m
                  /\ m < (timeRemaining' + 1) * MS_PER_SECOND
        /\ CountdownTick => (timeRemaining > 0 /\ timeRemaining' = timeRemaining - 1)
        /\ (timeRemaining = 0 /\ timeRemaining' # 0) =>
             \E ms \in {n * MS_PER_SECOND : n \in 1..MaxExpiry} : PaymentCreatedIn(ms)
        /\ ResetPaymentState => timeRemaining' = 0]_vars

\* the countdown of a transaction ran down to 0 and the dialog shows it expired
C37_Witness ==
  /\ timeRemaining = 0
  /\ paymentStatus = "expired"
  /\ paymentData = "data"
  /\ showCheckout
  /\ ~createPending

====
